---- MODULE Spec2Model ----
(***************************************************************************)
(* Model of scripts/build_docs.py: the multi-version Docusaurus build      *)
(* orchestrator.  Text files are sequences of one-character strings, so    *)
(* that the substitutions are computed the way Python computes them        *)
(* (str.replace, re.sub with a template, fileinput's text-mode line        *)
(* reading).  Directories are functions from file paths to file contents,  *)
(* or NoDir when the directory does not exist.  The install and the build  *)
(* command are external: their exit code and their effect on the output    *)
(* directory are chosen nondeterministically.                              *)
(***************************************************************************)
EXTENDS Integers, Sequences, FiniteSets, TLC

VARIABLES
    pc,            \* position of the single thread of control
    versions,      \* main's / build_docs' parameter `versions`
    skip_install,  \* main's parameter
    use_yarn,      \* main's parameter
    i,             \* index of the version the for loop is at
    redirects,     \* content of redirects.js
    config,        \* content of docusaurus.config.js
    build,         \* directory "build"
    temp,          \* directory "build__temp"
    exitCode,      \* exit status of the process, -1 while running
    log,           \* history: commands invoked, removal of the old output
    redirects0,    \* history: redirects.js before the run
    redirectsPre,  \* history: redirects.js when the current iteration began
    configPre,     \* history: docusaurus.config.js before the last rewrite
    reordered,     \* history: sorted() changed the order of the versions
    temp0,         \* history: "build__temp" before the run
    outputs        \* history: output trees written by this run's builds

vars == <<pc, versions, skip_install, use_yarn, i, redirects, config, build,
          temp, exitCode, log, redirects0, redirectsPre, configPre, reordered,
          temp0, outputs>>

----------------------------------------------------------------------------
(* Bounds *)

MaxVersions == 2

----------------------------------------------------------------------------
(* Characters and strings *)

LF == "\n"
CR == "\r"
BSL == "\\"
QUOTE == "\""

Letters == {"a", "b", "d", "e", "i", "l", "n", "o", "r", "s", "t", "u", "v",
            "x", "V"}
Digits == {"1", "9"}

\* code points, for the order Python's sorted() puts strings in
Ord(c) ==
    CASE c = LF -> 10 [] c = CR -> 13 [] c = " " -> 32 [] c = QUOTE -> 34
      [] c = "/" -> 47 [] c = "1" -> 49 [] c = "9" -> 57 [] c = ";" -> 59
      [] c = "=" -> 61 [] c = "V" -> 86 [] c = BSL -> 92 [] c = "a" -> 97
      [] c = "b" -> 98 [] c = "d" -> 100 [] c = "e" -> 101 [] c = "i" -> 105
      [] c = "l" -> 108 [] c = "n" -> 110 [] c = "o" -> 111 [] c = "r" -> 114
      [] c = "s" -> 115 [] c = "t" -> 116 [] c = "u" -> 117 [] c = "v" -> 118
      [] c = "x" -> 120

LATEST == <<"l", "a", "t", "e", "s", "t">>
V9 == <<"9">>
V1 == <<"v", "1">>
VBSL == <<BSL, BSL>>
VBAD == <<BSL, "d">>

Versions == {LATEST, V9, V1, VBSL, VBAD}

Slashed(v) == <<"/">> \o v \o <<"/">>

StartsWith(s, p) == Len(s) >= Len(p) /\ SubSeq(s, 1, Len(p)) = p

Drop(s, n) == SubSeq(s, n + 1, Len(s))

\* a < b in the order of Python's str comparison
RECURSIVE StrLess(_, _)
StrLess(a, b) ==
    IF b = <<>> THEN FALSE
    ELSE IF a = <<>> THEN TRUE
    ELSE IF Ord(Head(a)) # Ord(Head(b)) THEN Ord(Head(a)) < Ord(Head(b))
    ELSE StrLess(Tail(a), Tail(b))

RECURSIVE Insert(_, _)
Insert(x, s) ==
    IF s = <<>> THEN <<x>>
    ELSE IF StrLess(x, Head(s)) THEN <<x>> \o s
    ELSE <<Head(s)>> \o Insert(x, Tail(s))

\* sorted(versions): ascending, stable
RECURSIVE Sorted(_)
Sorted(s) ==
    IF s = <<>> THEN <<>>
    ELSE Insert(s[Len(s)], Sorted(SubSeq(s, 1, Len(s) - 1)))

\* str.replace(old, new): leftmost non-overlapping occurrences, old # ""
RECURSIVE StrReplace(_, _, _)
StrReplace(s, old, new) ==
    IF Len(s) < Len(old) THEN s
    ELSE IF StartsWith(s, old)
         THEN new \o StrReplace(Drop(s, Len(old)), old, new)
         ELSE <<Head(s)>> \o StrReplace(Tail(s), old, new)

----------------------------------------------------------------------------
(* fileinput.input(name, inplace=1): the file is read in text mode, so     *)
(* "\r\n" and "\r" arrive as "\n"; lines keep their terminator; what the   *)
(* loop prints replaces the file.                                          *)

RECURSIVE TranslateNewlines(_)
TranslateNewlines(s) ==
    IF s = <<>> THEN <<>>
    ELSE IF Head(s) = CR
         THEN IF Len(s) >= 2 /\ s[2] = LF
              THEN <<LF>> \o TranslateNewlines(Drop(s, 2))
              ELSE <<LF>> \o TranslateNewlines(Tail(s))
         ELSE <<Head(s)>> \o TranslateNewlines(Tail(s))

RECURSIVE LineEnd(_, _)
LineEnd(s, k) ==
    IF k > Len(s) THEN Len(s)
    ELSE IF s[k] = LF THEN k
    ELSE LineEnd(s, k + 1)

RECURSIVE SplitLines(_)
SplitLines(s) ==
    IF s = <<>> THEN <<>>
    ELSE LET e == LineEnd(s, 1)
         IN  <<SubSeq(s, 1, e)>> \o SplitLines(Drop(s, e))

ReadLines(content) == SplitLines(TranslateNewlines(content))

RECURSIVE Concat(_)
Concat(lines) ==
    IF lines = <<>> THEN <<>> ELSE Head(lines) \o Concat(Tail(lines))

\* lines 38-39 and 62-63: every line with old replaced by new
ReplaceInFile(content, old, new) ==
    LET lines == ReadLines(content)
    IN  Concat([k \in 1..Len(lines) |-> StrReplace(lines[k], old, new)])

----------------------------------------------------------------------------
(* Lines 41-44: re.sub(r"^var buildVersion.*", replacement, line).  The    *)
(* replacement is a template: re processes its backslash escapes.          *)

BEL == "<BEL>"
BS == "<BS>"
VT == "<VT>"
TAB == "\t"

VarBuildVersion ==
    <<"v", "a", "r", " ", "b", "u", "i", "l", "d", "V", "e", "r", "s", "i",
      "o", "n">>

\* the text of  var buildVersion = "{v}";
Declaration(v) ==
    VarBuildVersion \o <<" ", "=", " ", QUOTE>> \o v \o <<QUOTE, ";">>

\* line 42
Replacement(v) == Declaration(v)

EscapeLetters == {"a", "b", "n", "r", "t", "v"}

Escape(c) ==
    CASE c = "a" -> BEL [] c = "b" -> BS [] c = "n" -> LF [] c = "r" -> CR
      [] c = "t" -> TAB [] c = "v" -> VT

\* re compiles the template: an escape of a letter it does not know, a
\* reference to a group (the pattern has none) or a lone trailing backslash
\* raises re.error
RECURSIVE TemplateOk(_)
TemplateOk(t) ==
    IF t = <<>> THEN TRUE
    ELSE IF Head(t) # BSL THEN TemplateOk(Tail(t))
    ELSE IF Len(t) = 1 THEN FALSE
    ELSE IF t[2] \in Digits THEN FALSE
    ELSE IF t[2] \in Letters \ EscapeLetters THEN FALSE
    ELSE TemplateOk(Drop(t, 2))

\* what a valid template expands to
RECURSIVE ExpandTemplate(_)
ExpandTemplate(t) ==
    IF t = <<>> THEN <<>>
    ELSE IF Head(t) # BSL \/ Len(t) = 1
         THEN <<Head(t)>> \o ExpandTemplate(Tail(t))
    ELSE IF t[2] = BSL THEN <<BSL>> \o ExpandTemplate(Drop(t, 2))
    ELSE IF t[2] \in EscapeLetters
         THEN <<Escape(t[2])>> \o ExpandTemplate(Drop(t, 2))
    ELSE <<BSL, t[2]>> \o ExpandTemplate(Drop(t, 2))

\* the pattern matches at the start of the line only, up to the terminator
MatchesPattern(line) == StartsWith(line, VarBuildVersion)

Terminator(line) ==
    IF line # <<>> /\ line[Len(line)] = LF THEN <<LF>> ELSE <<>>

\* line 44, one line
ReSub(line, v) ==
    IF MatchesPattern(line)
    THEN ExpandTemplate(Replacement(v)) \o Terminator(line)
    ELSE line

\* lines 43-44, the whole file; a template error is raised at the first
\* line, when nothing has been printed to the file yet
RewriteRaises(content, v) ==
    ReadLines(content) # <<>> /\ ~TemplateOk(Replacement(v))

RewriteConfigFile(content, v) ==
    LET lines == ReadLines(content)
    IN  IF RewriteRaises(content, v) THEN <<>>
        ELSE Concat([k \in 1..Len(lines) |-> ReSub(lines[k], v)])

----------------------------------------------------------------------------
(* Directories *)

NoFiles == [p \in {} |-> <<>>]
NoDir == [exists |-> FALSE, files |-> NoFiles]
Dir(f) == [exists |-> TRUE, files |-> f]

\* os.path.isdir
IsDir(d) == d.exists

\* a copy that replaces the destination instead of merging into it
CopyTreeReplacing(src, dst) == Dir(src.files)

\* shutil.copytree(src, dst, dirs_exist_ok=True): dst is created when
\* missing, files of src overwrite files of dst, nothing of dst is deleted
CopyTree(src, dst) ==
    Dir([p \in DOMAIN dst.files \cup DOMAIN src.files |->
            IF p \in DOMAIN src.files THEN src.files[p] ELSE dst.files[p]])

----------------------------------------------------------------------------
(* The inputs the model draws from *)

OLD == <<"o", "l", "d">>

RedirectFiles ==
    { Slashed(LATEST) \o <<"x", LF>>,
      <<"/", "9", "/", "a", " ">> \o Slashed(LATEST) \o <<"x", LF>>,
      Slashed(LATEST) \o <<"l", "a", "t", "e", "s", "t", "/", CR, LF, "x">>,
      <<"x", LF>> }

ConfigFiles ==
    { <<"a", LF>> \o Declaration(LATEST) \o <<LF, "b", LF>>,
      Declaration(<<"x">>) \o <<LF>> \o VarBuildVersion \o <<"x", LF>>,
      <<"a", CR, LF>> \o Declaration(<<"x">>) \o <<CR, LF, "b">> }

\* what the directories can hold when the run starts
OldBuilds == {NoDir, Dir([p \in {"index.html"} |-> OLD])}
OldTemps == {NoDir, Dir([p \in {"stale.html"} |-> OLD])}

\* the sets of files a build can write
OutSets == {{"index.html"}, {"index.html", "docs.html"}}

VersionLists == UNION {[1..n -> Versions] : n \in 1..MaxVersions}

----------------------------------------------------------------------------
(* The program *)

\* the version the loop is at (line 33)
V == versions[i]

Tool == IF use_yarn THEN "yarn" ELSE "npm"

Running == pc \notin {"done", "exited", "crashed"}

\* lines 95-113: argparse takes one or more versions and the two flags
Init ==
    /\ pc = "main"
    /\ versions \in VersionLists
    /\ skip_install \in BOOLEAN
    /\ use_yarn \in BOOLEAN
    /\ i = 0
    /\ redirects \in RedirectFiles
    /\ config \in ConfigFiles
    /\ build \in OldBuilds
    /\ temp \in OldTemps
    /\ exitCode = -1
    /\ log = <<>>
    /\ redirects0 = redirects
    /\ redirectsPre = redirects
    /\ configPre = config
    /\ reordered = FALSE
    /\ temp0 = temp
    /\ outputs = <<>>

\* a sort that leaves the command line's order
SortVersionsAsGiven(vs) == vs

\* line 77
SortVersions(vs) == Sorted(vs)

\* lines 74-77
MainSort ==
    /\ pc = "main"
    /\ versions' = SortVersions(versions)
    /\ reordered' = (versions' # versions)
    /\ pc' = "install"
    /\ UNCHANGED <<skip_install, use_yarn, i, redirects, config, build, temp,
                   exitCode, log, redirects0, redirectsPre, configPre, temp0,
                   outputs>>

\* an install that ignores --skip-install
InstallRunsAlways == TRUE

\* the guard of line 80
InstallRuns == ~skip_install

\* lines 80-86: subprocess.run does not look at the exit code
MainInstall ==
    /\ pc = "install"
    /\ \E rc \in {0, 1} :
          log' = IF InstallRuns
                 THEN Append(log, [cmd |-> "install", tool |-> Tool,
                                   v |-> <<>>, rc |-> rc])
                 ELSE log
    /\ pc' = "rmtree"
    /\ UNCHANGED <<versions, skip_install, use_yarn, i, redirects, config,
                   build, temp, exitCode, redirects0, redirectsPre, configPre,
                   reordered, temp0, outputs>>

\* lines 89-92 and 33: the old output is removed, the loop begins
MainRmtree ==
    /\ pc = "rmtree"
    /\ build' = NoDir
    /\ log' = Append(log, [cmd |-> "rmtree", tool |-> "shutil", v |-> <<>>,
                           rc |-> 0])
    /\ i' = 1
    /\ pc' = IF Len(versions) >= 1 THEN "redirects" ELSE "rmtree_build"
    /\ UNCHANGED <<versions, skip_install, use_yarn, redirects, config, temp,
                   exitCode, redirects0, redirectsPre, configPre, reordered,
                   temp0, outputs>>

\* lines 37-39
RewriteRedirects ==
    /\ pc = "redirects"
    /\ redirectsPre' = redirects
    /\ redirects' = IF V # LATEST
                    THEN ReplaceInFile(redirects, Slashed(LATEST), Slashed(V))
                    ELSE redirects
    /\ pc' = "config"
    /\ UNCHANGED <<versions, skip_install, use_yarn, i, config, build, temp,
                   exitCode, log, redirects0, configPre, reordered, temp0,
                   outputs>>

\* lines 42-44; re.error is not caught, so the process dies of it
RewriteConfig ==
    /\ pc = "config"
    /\ configPre' = config
    /\ config' = RewriteConfigFile(config, V)
    /\ IF RewriteRaises(config, V)
       THEN pc' = "crashed" /\ exitCode' = 1
       ELSE pc' = "build" /\ exitCode' = exitCode
    /\ UNCHANGED <<versions, skip_install, use_yarn, i, redirects, build, temp,
                   log, redirects0, redirectsPre, reordered, temp0, outputs>>

\* what the build tool leaves in "build": when it exits with 0 a fresh tree
\* that replaces the directory, when it fails the directory as it was or no
\* directory; the script never reads the exit code
BuildResults(rc) ==
    IF rc = 0 THEN {Dir([p \in S |-> V]) : S \in OutSets}
    ELSE {build, NoDir}

\* lines 47-50: subprocess.run does not look at the exit code
RunBuild ==
    /\ pc = "build"
    /\ \E rc \in {0, 1} : \E out \in BuildResults(rc) :
          /\ log' = Append(log, [cmd |-> "build", tool |-> Tool, v |-> V,
                                 rc |-> rc])
          /\ build' = out
          /\ outputs' = IF rc = 0 THEN Append(outputs, out.files) ELSE outputs
    /\ pc' = "check"
    /\ UNCHANGED <<versions, skip_install, use_yarn, i, redirects, config,
                   temp, exitCode, redirects0, redirectsPre, configPre,
                   reordered, temp0>>

\* a check that never fires
OutputMissingNever == FALSE

\* the guard of line 56
OutputMissing == ~IsDir(build)

\* lines 56-57: sys.exit with a message exits with status 1
CheckBuildDir ==
    /\ pc = "check"
    /\ IF OutputMissing
       THEN pc' = "exited" /\ exitCode' = 1
       ELSE pc' = "copy" /\ exitCode' = exitCode
    /\ UNCHANGED <<versions, skip_install, use_yarn, i, redirects, config,
                   build, temp, log, redirects0, redirectsPre, configPre,
                   reordered, temp0, outputs>>

\* line 58
CopyOutput ==
    /\ pc = "copy"
    /\ temp' = CopyTree(build, temp)
    /\ pc' = "restore"
    /\ UNCHANGED <<versions, skip_install, use_yarn, i, redirects, config,
                   build, exitCode, log, redirects0, redirectsPre, configPre,
                   reordered, temp0, outputs>>

\* lines 61-63, and the loop moves on (line 33)
RestoreRedirects ==
    /\ pc = "restore"
    /\ redirects' = IF V # LATEST
                    THEN ReplaceInFile(redirects, Slashed(V), Slashed(LATEST))
                    ELSE redirects
    /\ i' = i + 1
    /\ pc' = IF i < Len(versions) THEN "redirects" ELSE "rmtree_build"
    /\ UNCHANGED <<versions, skip_install, use_yarn, config, build, temp,
                   exitCode, log, redirects0, redirectsPre, configPre,
                   reordered, temp0, outputs>>

\* line 66: shutil.rmtree raises when the directory is missing
RemoveBuild ==
    /\ pc = "rmtree_build"
    /\ IF IsDir(build)
       THEN build' = NoDir /\ pc' = "move" /\ exitCode' = exitCode
       ELSE build' = build /\ pc' = "crashed" /\ exitCode' = 1
    /\ UNCHANGED <<versions, skip_install, use_yarn, i, redirects, config,
                   temp, log, redirects0, redirectsPre, configPre, reordered,
                   temp0, outputs>>

\* line 67: "build" is gone, so the move is a rename
MoveTemp ==
    /\ pc = "move"
    /\ IF IsDir(temp)
       THEN build' = temp /\ temp' = NoDir /\ pc' = "done" /\ exitCode' = 0
       ELSE build' = build /\ temp' = temp /\ pc' = "crashed" /\ exitCode' = 1
    /\ UNCHANGED <<versions, skip_install, use_yarn, i, redirects, config,
                   log, redirects0, redirectsPre, configPre, reordered, temp0,
                   outputs>>

Next ==
    \/ MainSort
    \/ MainInstall
    \/ MainRmtree
    \/ RewriteRedirects
    \/ RewriteConfig
    \/ RunBuild
    \/ CheckBuildDir
    \/ CopyOutput
    \/ RestoreRedirects
    \/ RemoveBuild
    \/ MoveTemp

Spec == Init /\ [][Next]_vars

----------------------------------------------------------------------------
(* What the properties below read off the history *)

IsBuild(e) == e.cmd = "build"
IsInstall(e) == e.cmd = "install"

BuildLog == SelectSeq(log, IsBuild)
InstallLog == SelectSeq(log, IsInstall)

\* the versions whose build command has been invoked, in order
Built == [k \in 1..Len(BuildLog) |-> BuildLog[k].v]

\* every external command so far exited with 0
AllOk == \A k \in 1..Len(log) : log[k].rc = 0

\* the last command invoked is a build command that exited with 0
LastBuildOk ==
    log # <<>> /\ log[Len(log)].cmd = "build" /\ log[Len(log)].rc = 0

\* an iteration of the loop has just ended with its restore step
IterationEnded == pc \in {"redirects", "rmtree_build"} /\ i >= 2

\* p occurs in s
RECURSIVE Contains(_, _)
Contains(s, p) ==
    IF Len(s) < Len(p) THEN FALSE
    ELSE StartsWith(s, p) \/ Contains(Tail(s), p)

\* the lines of a file as stored, each with its terminator
StoredLines(content) == SplitLines(content)

Ending(line) ==
    IF Len(line) >= 2 /\ SubSeq(line, Len(line) - 1, Len(line)) = <<CR, LF>>
    THEN <<CR, LF>>
    ELSE IF line # <<>> /\ line[Len(line)] = LF THEN <<LF>> ELSE <<>>

\* the files of the output trees, later trees over earlier ones
RECURSIVE MergeAll(_)
MergeAll(trees) ==
    IF trees = <<>> THEN NoFiles
    ELSE LET n == Len(trees)
             before == MergeAll(SubSeq(trees, 1, n - 1))
         IN  [p \in DOMAIN before \cup DOMAIN trees[n] |->
                 IF p \in DOMAIN trees[n] THEN trees[n][p] ELSE before[p]]

----------------------------------------------------------------------------
(* C1: for every version other than "latest" whose build command          *)
(* succeeded, redirects.js after the restore step is byte-identical to     *)
(* redirects.js before that version's rewrite step, whatever the file      *)
(* held; and after a run in which every command succeeded the file is      *)
(* byte-identical to the file before the run.                              *)
C1_RedirectRoundTrip ==
    /\ (IterationEnded /\ versions[i - 1] # LATEST /\ LastBuildOk)
          => redirects = redirectsPre
    /\ (pc = "done" /\ AllOk) => redirects = redirects0

C3_FailureIsFatal ==
    /\ (\E k \in 1..Len(InstallLog) : InstallLog[k].rc # 0) => BuildLog = <<>>
    /\ \A k \in 1..Len(BuildLog) :
          BuildLog[k].rc # 0
             => k = Len(BuildLog) /\ pc \in {"check", "exited", "crashed"}

(* C4: when "build" does not exist after the build command returned, the   *)
(* next step ends the process with a nonzero status and changes nothing    *)
(* else (no merge-copy, no rename, no rewrite, no command), and nothing    *)
(* happens after the exit.                                                 *)
C4_MissingOutputExits ==
    [][ /\ (pc = "check" /\ ~IsDir(build))
           => /\ pc' = "exited"
              /\ exitCode' # 0
              /\ exitCode' # -1
              /\ UNCHANGED <<i, redirects, config, build, temp, log>>
        /\ pc = "exited" => UNCHANGED vars ]_vars

C4_ExitedBeforeLaterVersion ==
    /\ pc = "exited"
    /\ exitCode = 1
    /\ i < Len(versions)
    /\ IsDir(temp)
    /\ ~IsDir(build)

(* C5: after a run that reached its end, every file that some build of     *)
(* the run wrote is in the final output directory, also when a later       *)
(* build did not write it.                                                 *)
C5_MergeKeepsEarlierOutput ==
    pc = "done" =>
        \A k \in 1..Len(outputs) :
            DOMAIN outputs[k] \subseteq DOMAIN build.files

C5_EarlierOnlyFileKept ==
    /\ pc = "done"
    /\ Len(outputs) = 2
    /\ \E p \in DOMAIN outputs[1] :
          p \notin DOMAIN outputs[2] /\ p \in DOMAIN build.files

(* C6: the configuration rewrite for v keeps the number of lines, leaves   *)
(* every line that does not match the buildVersion pattern as it was, and  *)
(* turns a matching line into the declaration assigning v.                 *)
C6_ConfigRewriteFrame ==
    pc \in {"build", "crashed"} =>
        LET old == StoredLines(configPre)
            new == StoredLines(config)
        IN  /\ Len(new) = Len(old)
            /\ \A k \in 1..Len(old) :
                  new[k] = IF MatchesPattern(old[k])
                           THEN Declaration(V) \o Ending(old[k])
                           ELSE old[k]

(* C7: with skip_install the install command is never invoked; without it  *)
(* the install command is invoked once, before the old output directory    *)
(* is removed and before every build command.                              *)
C7_InstallOrdering ==
    /\ skip_install => InstallLog = <<>>
    /\ ~skip_install =>
          /\ Len(InstallLog) <= 1
          /\ ~Running => Len(InstallLog) = 1
          /\ \A k \in 1..Len(log) :
                log[k].cmd \in {"rmtree", "build"}
                   => \E j \in 1..(k - 1) : log[j].cmd = "install"

C7_InstalledOnceThenBuilt ==
    pc = "done" /\ ~skip_install /\ Len(InstallLog) = 1 /\ Len(BuildLog) = 2

(* C8: when the build command is invoked for a version v other than        *)
(* "latest", redirects.js is the file before the run with "/latest/"       *)
(* replaced by "/v/" and holds no "/latest/"; when it is invoked for       *)
(* "latest", redirects.js is the file before the run.                      *)
C8_BuildSeesOwnRedirects ==
    pc = "build" =>
        IF V # LATEST
        THEN /\ redirects = StrReplace(redirects0, Slashed(LATEST), Slashed(V))
             /\ ~Contains(redirects, Slashed(LATEST))
        ELSE redirects = redirects0

(* C9: after a run in which every command succeeded "build__temp" does     *)
(* not exist and "build" holds exactly the files the builds of the run     *)
(* wrote, each with the content of the last build that wrote it.           *)
C9_StagingLifecycle ==
    (pc = "done" /\ AllOk) =>
        ~IsDir(temp) /\ build = Dir(MergeAll(outputs))

\* every buildVersion line of the configuration file declares v
ConfigDeclares(v) ==
    LET ls == StoredLines(config)
    IN  /\ \E k \in 1..Len(ls) : MatchesPattern(ls[k])
        /\ \A k \in 1..Len(ls) :
              MatchesPattern(ls[k]) => ls[k] = Declaration(v) \o Ending(ls[k])

(* C10: when the run exits at the missing-output check while at a version  *)
(* v other than "latest", redirects.js is the file of before v's rewrite   *)
(* with "/latest/" replaced by "/v/" and the configuration file declares   *)
(* v; redirects.js equals the file before the run only if the exit is at   *)
(* "latest" or that file held no "/latest/".                               *)
C10_NoRestoreOnAbort ==
    pc = "exited" =>
        /\ V # LATEST =>
              /\ redirects =
                    StrReplace(redirectsPre, Slashed(LATEST), Slashed(V))
              /\ ConfigDeclares(V)
        /\ redirects = redirects0
              => V = LATEST \/ ~Contains(redirects0, Slashed(LATEST))

====
